---- MODULE Spec2Model ----
(***************************************************************************)
(* Model of the spin-off scoring pipeline of src/main.py: the four domain  *)
(* hubs, the three deterministic scorers, the composer and run().          *)
(*                                                                         *)
(* Numbers.  Python floats are modelled as exact decimals:                 *)
(*   - feature values and thresholds in tenths (3.2 is 32, 15000000 is     *)
(*     150000000),                                                          *)
(*   - confidences in twentieths (0.75 is 15, 0.70 is 14, 0.80 is 16),     *)
(*   - base weights in tenths (1.3 is 13),                                 *)
(*   - scores in whole points.                                             *)
(* Floating-point rounding, NaN and infinities are outside the model.      *)
(***************************************************************************)
EXTENDS Integers, Sequences, FiniteSets, TLC

VARIABLES
    \* ---- run() and the event loop of asyncio.run ----
    pc,          \* position of run(): start, await_hubs, await_scores, done, raised
    loop,        \* the event loop of asyncio.run: "running" or "closed"
    casefile,    \* CaseFile returned by fetch_and_normalize
    hub,         \* hub task -> "idle" | "running" | "ok" | "failed" | "hung" | "cancelled"
    hubOut,      \* hub task -> FeatureSet it returned
    g1,          \* outer future of the first gather: "none" | "pending" | "result" | "exception"
    err,         \* the exception run() raised: the hub or scorer it came from
    task,        \* scorer slot (1..3) -> "idle" | "running" | "done"
    taskOut,     \* scorer slot -> what the scorer returned or raised
    completion,  \* scorer slots in the order their threads finished
    g2,          \* outer future of the second gather
    scores,      \* the list the second gather resolved to
    composeArg,  \* the list run() passed to compose
    composite,   \* what compose returned to run()
    printed,     \* criterion lines printed, in order
    exported,    \* data rows written to grid.csv, in order
    \* ---- direct calls of one scorer on two FeatureSets ----
    fn,          \* the scorer called
    fs1, fs2,    \* its arguments
    r1, r2,      \* its results
    \* ---- a direct call of compose ----
    inScores,    \* the argument list
    out          \* the result

runVars == <<pc, loop, casefile, hub, hubOut, g1, err, task, taskOut, completion,
             g2, scores, composeArg, composite, printed, exported>>
scoreVars == <<fn, fs1, fs2, r1, r2>>
composeVars == <<inScores, out>>
vars == <<runVars, scoreVars, composeVars>>

\* Longest list handed to compose in a direct call.
MaxLen == 3

----------------------------------------------------------------------------
(* Values a FeatureSet may hold: float | int | bool | str.                  *)

F(x) == [t |-> "float", v |-> x, s |-> ""]
I(n) == [t |-> "int", v |-> n * 10, s |-> ""]
B(b) == [t |-> "bool", v |-> b * 10, s |-> ""]
S(x) == [t |-> "str", v |-> 0, s |-> x]

EmptyDict == [k \in {} |-> F(0)]

FeatureSet(d, f) == [domain |-> d, features |-> f]

\* dict.get(key, default)
Get(features, key, default) ==
    IF key \in DOMAIN features THEN features[key] ELSE default

\* A value or a raised exception.
Conv(x) == [exc |-> "", v |-> x]
ConvError(e) == [exc |-> e, v |-> 0]

\* float(x): numbers convert, a string must be a numeric literal.
PyFloat(x) ==
    IF x.t = "str"
    THEN CASE x.s = "3.2" -> Conv(32)
           [] x.s = "0" -> Conv(0)
           [] x.s = "1" -> Conv(10)
           [] OTHER -> ConvError("ValueError")
    ELSE Conv(x.v)

\* int(x): floats truncate toward zero, a string must be an integer literal.
\* The result is in whole units.
PyInt(x) ==
    IF x.t = "str"
    THEN CASE x.s = "0" -> Conv(0)
           [] x.s = "1" -> Conv(1)
           [] OTHER -> ConvError("ValueError")
    ELSE IF x.v >= 0 THEN Conv(x.v \div 10) ELSE Conv(-((-x.v) \div 10))

----------------------------------------------------------------------------
(* CriterionScore and the three scorers.                                    *)

CriterionScore(c, sc, conf) ==
    [exc |-> "", criterion |-> c, score |-> sc, confidence |-> conf]
Raised(e) == [exc |-> e, criterion |-> "", score |-> 0, confidence |-> 0]
NoResult == [exc |-> "pending", criterion |-> "", score |-> 0, confidence |-> 0]

score_debt_loading_flat(cap) ==
    LET nl == PyFloat(Get(cap.features, "net_leverage_turns", I(0)))
        fcf_nd == PyFloat(Get(cap.features, "fcf_to_net_debt_pct", I(0)))
    IN  IF nl.exc # "" THEN Raised(nl.exc)
        ELSE IF fcf_nd.exc # "" THEN Raised(fcf_nd.exc)
        ELSE LET base == IF nl.v <= 15 THEN 1
                         ELSE IF nl.v <= 30 THEN 3
                         ELSE IF fcf_nd.v >= 300 THEN 5 ELSE 3
             IN  CriterionScore("Debt Loading", base, 15)

score_debt_loading_mid4(cap) ==
    LET nl == PyFloat(Get(cap.features, "net_leverage_turns", I(0)))
        fcf_nd == PyFloat(Get(cap.features, "fcf_to_net_debt_pct", I(0)))
    IN  IF nl.exc # "" THEN Raised(nl.exc)
        ELSE IF fcf_nd.exc # "" THEN Raised(fcf_nd.exc)
        ELSE LET base == IF nl.v <= 15 THEN 1
                         ELSE IF nl.v <= 30 THEN 4
                         ELSE IF fcf_nd.v >= 300 THEN 5
                         ELSE IF fcf_nd.v >= 200 THEN 4 ELSE 3
             IN  CriterionScore("Debt Loading", base, 15)

score_debt_loading(cap) ==
    LET nl == PyFloat(Get(cap.features, "net_leverage_turns", I(0)))
        fcf_nd == PyFloat(Get(cap.features, "fcf_to_net_debt_pct", I(0)))
    IN  IF nl.exc # "" THEN Raised(nl.exc)
        ELSE IF fcf_nd.exc # "" THEN Raised(fcf_nd.exc)
        ELSE LET high == IF fcf_nd.v >= 200 THEN 4 ELSE 3
                 base == IF nl.v <= 15 THEN 1
                         ELSE IF nl.v <= 30 THEN 3
                         ELSE IF fcf_nd.v >= 300 THEN 5 ELSE high
             IN  CriterionScore("Debt Loading", base, 15)

score_index_exclusion_le(micro) ==
    LET russ == PyInt(Get(micro.features, "russell_eligible", I(1)))
        adv == PyFloat(Get(micro.features, "avg_daily_dollar_volume", I(0)))
    IN  IF russ.exc # "" THEN Raised(russ.exc)
        ELSE IF adv.exc # "" THEN Raised(adv.exc)
        ELSE LET sc == IF russ.v = 0 /\ adv.v <= 150000000 THEN 5
                       ELSE IF russ.v = 0 THEN 4
                       ELSE 2
             IN  CriterionScore("Index Exclusion", sc, 14)

score_index_exclusion(micro) ==
    LET russ == PyInt(Get(micro.features, "russell_eligible", I(1)))
        adv == PyFloat(Get(micro.features, "avg_daily_dollar_volume", I(0)))
    IN  IF russ.exc # "" THEN Raised(russ.exc)
        ELSE IF adv.exc # "" THEN Raised(adv.exc)
        ELSE LET sc == IF russ.v = 0 /\ adv.v < 150000000 THEN 5
                       ELSE IF russ.v = 0 THEN 4
                       ELSE 2
             IN  CriterionScore("Index Exclusion", sc, 14)

score_equity_incentives_gt(own) ==
    LET pct == PyFloat(Get(own.features, "mgmt_ownership_pct", I(0)))
        perf == PyInt(Get(own.features, "perf_equity_present", I(0)))
    IN  IF pct.exc # "" THEN Raised(pct.exc)
        ELSE IF perf.exc # "" THEN Raised(perf.exc)
        ELSE LET sc == IF pct.v > 30 /\ perf.v # 0 THEN 5
                       ELSE IF pct.v > 10 /\ perf.v # 0 THEN 4
                       ELSE IF pct.v > 10 THEN 3
                       ELSE 2
             IN  CriterionScore("Equity Incentives", sc, 16)

score_equity_incentives(own) ==
    LET pct == PyFloat(Get(own.features, "mgmt_ownership_pct", I(0)))
        perf == PyInt(Get(own.features, "perf_equity_present", I(0)))
    IN  IF pct.exc # "" THEN Raised(pct.exc)
        ELSE IF perf.exc # "" THEN Raised(perf.exc)
        ELSE LET sc == IF pct.v >= 30 /\ perf.v # 0 THEN 5
                       ELSE IF pct.v >= 10 /\ perf.v # 0 THEN 4
                       ELSE IF pct.v >= 10 THEN 3
                       ELSE 2
             IN  CriterionScore("Equity Incentives", sc, 16)

----------------------------------------------------------------------------
(* The composer.                                                            *)

WEIGHTS ==
    ("Debt Loading" :> 13) @@ ("Index Exclusion" :> 12) @@ ("Equity Incentives" :> 15)

\* WEIGHTS.get(sc.criterion, 1.0), in tenths
BaseWeightNoDefault(criterion) ==
    IF criterion \in DOMAIN WEIGHTS THEN WEIGHTS[criterion] ELSE 0

BaseWeight(criterion) ==
    IF criterion \in DOMAIN WEIGHTS THEN WEIGHTS[criterion] ELSE 10

\* w = WEIGHTS.get(sc.criterion, 1.0) * (0.5 + 0.5 * sc.confidence), in 1/400:
\* the base weight in tenths times (20 + confidence in twentieths) fortieths.
EffectiveWeight(sc) == BaseWeight(sc.criterion) * (20 + sc.confidence)

\* The for loop of compose: <<num, den>> after the items i .. Len(scs).
RECURSIVE ComposeLoop(_, _, _, _)
ComposeLoop(scs, i, num, den) ==
    IF i > Len(scs)
    THEN <<num, den>>
    ELSE LET w == EffectiveWeight(scs[i])
         IN  ComposeLoop(scs, i + 1, num + w * scs[i].score, den + w)

\* The result of compose: the composite as the exact fraction num / den, and the
\* list; or the exception raised.
Composite(n, d, scs) == [exc |-> "", num |-> n, den |-> d, list |-> scs]
ComposeRaised(e) == [exc |-> e, num |-> 0, den |-> 1, list |-> <<>>]
NoComposite == [exc |-> "pending", num |-> 0, den |-> 1, list |-> <<>>]

\* num / den on Python floats
PyDiv(num, den, scs) ==
    IF den = 0 THEN ComposeRaised("ZeroDivisionError") ELSE Composite(num, den, scs)

compose_unguarded(scs) ==
    LET acc == ComposeLoop(scs, 1, 0, 0)
    IN  PyDiv(acc[1], acc[2], scs)

compose(scs) ==
    LET acc == ComposeLoop(scs, 1, 0, 0)
    IN  IF acc[2] # 0 THEN PyDiv(acc[1], acc[2], scs) ELSE Composite(0, 1, scs)

----------------------------------------------------------------------------
(* The domain hubs: what each returns when its data source answers.         *)

capital_structure_hub ==
    FeatureSet("capital_structure",
               ("net_leverage_turns" :> F(32)) @@ ("fcf_to_net_debt_pct" :> I(22))
                 @@ ("special_dividend_flag" :> B(1)))

ownership_hub ==
    FeatureSet("ownership",
               ("mgmt_ownership_pct" :> F(21)) @@ ("perf_equity_present" :> I(1)))

microstructure_hub ==
    FeatureSet("microstructure",
               ("free_float_pct" :> I(65)) @@ ("russell_eligible" :> I(0))
                 @@ ("avg_daily_dollar_volume" :> I(12000000)))

ops_hub ==
    FeatureSet("ops",
               ("ebitda_margin_pct" :> I(14)) @@ ("customer_conc_top5_pct" :> I(38)))

Hubs == {"capital_structure_hub", "ownership_hub", "microstructure_hub", "ops_hub"}

HubResult(h) ==
    CASE h = "capital_structure_hub" -> capital_structure_hub
      [] h = "ownership_hub" -> ownership_hub
      [] h = "microstructure_hub" -> microstructure_hub
      [] h = "ops_hub" -> ops_hub

NoFeatureSet == FeatureSet("", EmptyDict)

----------------------------------------------------------------------------
(* run() under asyncio.run.                                                 *)

Subject == "Example SpinCo"

NoCaseFile == [company |-> "", ticker |-> "", announcement_date |-> ""]

Slots == 1 .. 3

\* The scorer of each slot of the second gather, applied to its FeatureSet.
Scorer(i, cap, micro, own) ==
    CASE i = 1 -> score_debt_loading(cap)
      [] i = 2 -> score_index_exclusion(micro)
      [] i = 3 -> score_equity_incentives(own)

\* The hub each slot's scorer reads.
Requires(i) ==
    CASE i = 1 -> "capital_structure_hub"
      [] i = 2 -> "microstructure_hub"
      [] i = 3 -> "ownership_hub"

\* The list a gather resolves to: wrong variant, in the order of completion.
GatherResultsAsCompleted(outs, order) == [i \in 1 .. Len(order) |-> outs[order[i]]]

\* The list a gather resolves to: one result per awaitable, in argument order.
GatherResults(outs, order) == [i \in 1 .. Len(order) |-> outs[i]]

RunIdle ==
    /\ pc = "idle"
    /\ loop = "closed"
    /\ casefile = NoCaseFile
    /\ hub = [h \in Hubs |-> "idle"]
    /\ hubOut = [h \in Hubs |-> NoFeatureSet]
    /\ g1 = "none"
    /\ err = ""
    /\ task = [i \in Slots |-> "idle"]
    /\ taskOut = [i \in Slots |-> NoResult]
    /\ completion = <<>>
    /\ g2 = "none"
    /\ scores = <<>>
    /\ composeArg = <<>>
    /\ composite = NoComposite
    /\ printed = <<>>
    /\ exported = <<>>

ScoreIdle ==
    /\ fn = ""
    /\ fs1 = NoFeatureSet
    /\ fs2 = NoFeatureSet
    /\ r1 = NoResult
    /\ r2 = NoResult

ComposeIdle ==
    /\ inScores = <<>>
    /\ out = NoComposite

\* asyncio.run(run("Example SpinCo")): run() is about to start.
Init ==
    /\ pc = "start"
    /\ loop = "running"
    /\ casefile = NoCaseFile
    /\ hub = [h \in Hubs |-> "idle"]
    /\ hubOut = [h \in Hubs |-> NoFeatureSet]
    /\ g1 = "none"
    /\ err = ""
    /\ task = [i \in Slots |-> "idle"]
    /\ taskOut = [i \in Slots |-> NoResult]
    /\ completion = <<>>
    /\ g2 = "none"
    /\ scores = <<>>
    /\ composeArg = <<>>
    /\ composite = NoComposite
    /\ printed = <<>>
    /\ exported = <<>>
    /\ ScoreIdle
    /\ ComposeIdle

\* run() up to its first gather: the case file is fetched, the four hubs are
\* scheduled as tasks and run() waits for the gather.
FetchAndNormalize ==
    /\ pc = "start"
    /\ loop = "running"
    /\ casefile' = [company |-> Subject, ticker |-> "TBD",
                    announcement_date |-> "2025-07-15"]
    /\ hub' = [h \in Hubs |-> "running"]
    /\ g1' = "pending"
    /\ pc' = "await_hubs"
    /\ UNCHANGED <<loop, hubOut, err, task, taskOut, completion, g2, scores,
                   composeArg, composite, printed, exported>>
    /\ UNCHANGED <<scoreVars, composeVars>>

\* A hub returns its FeatureSet.  The gather resolves once every hub has returned,
\* unless it already holds an exception.
HubReturn(h) ==
    /\ loop = "running"
    /\ hub[h] = "running"
    /\ hub' = [hub EXCEPT ![h] = "ok"]
    /\ hubOut' = [hubOut EXCEPT ![h] = HubResult(h)]
    /\ g1' = IF g1 = "pending" /\ \A k \in Hubs : hub'[k] = "ok"
             THEN "result" ELSE g1
    /\ UNCHANGED <<pc, loop, casefile, err, task, taskOut, completion, g2, scores,
                   composeArg, composite, printed, exported>>
    /\ UNCHANGED <<scoreVars, composeVars>>

\* A hub raises.  The first exception of a child is set on the gather at once; the
\* other hubs are left running.
HubRaise(h) ==
    /\ loop = "running"
    /\ hub[h] = "running"
    /\ hub' = [hub EXCEPT ![h] = "failed"]
    /\ g1' = IF g1 = "pending" THEN "exception" ELSE g1
    /\ err' = IF g1 = "pending" THEN h ELSE err
    /\ UNCHANGED <<pc, loop, casefile, hubOut, task, taskOut, completion, g2, scores,
                   composeArg, composite, printed, exported>>
    /\ UNCHANGED <<scoreVars, composeVars>>

\* A hub's data source never answers: the hub awaits it for ever.
HubHang(h) ==
    /\ loop = "running"
    /\ hub[h] = "running"
    /\ hub' = [hub EXCEPT ![h] = "hung"]
    /\ UNCHANGED <<pc, loop, casefile, hubOut, g1, err, task, taskOut, completion, g2,
                   scores, composeArg, composite, printed, exported>>
    /\ UNCHANGED <<scoreVars, composeVars>>

\* The first gather resolved: run() hands the three scorers to the thread pool
\* and waits for the second gather.
RunHubsGathered ==
    /\ pc = "await_hubs"
    /\ g1 = "result"
    /\ task' = [i \in Slots |-> "running"]
    /\ g2' = "pending"
    /\ pc' = "await_scores"
    /\ UNCHANGED <<loop, casefile, hub, hubOut, g1, err, taskOut, completion, scores,
                   composeArg, composite, printed, exported>>
    /\ UNCHANGED <<scoreVars, composeVars>>

\* The first gather holds an exception: the await re-raises it and run() ends.
RunHubsFailed ==
    /\ pc = "await_hubs"
    /\ g1 = "exception"
    /\ pc' = "raised"
    /\ UNCHANGED <<loop, casefile, hub, hubOut, g1, err, task, taskOut, completion, g2,
                   scores, composeArg, composite, printed, exported>>
    /\ UNCHANGED <<scoreVars, composeVars>>

\* A scorer's thread finishes.  The second gather takes its exception, or resolves
\* once all three have returned.
ScorerThread(i) ==
    /\ loop = "running"
    /\ task[i] = "running"
    /\ task' = [task EXCEPT ![i] = "done"]
    /\ taskOut' = [taskOut EXCEPT ![i] =
                     Scorer(i, hubOut["capital_structure_hub"],
                            hubOut["microstructure_hub"], hubOut["ownership_hub"])]
    /\ completion' = Append(completion, i)
    /\ IF g2 = "pending" /\ taskOut'[i].exc # ""
       THEN g2' = "exception" /\ err' = "scorer" /\ scores' = scores
       ELSE IF g2 = "pending" /\ \A k \in Slots : task'[k] = "done"
       THEN g2' = "result" /\ err' = err /\ scores' = GatherResults(taskOut', completion')
       ELSE UNCHANGED <<g2, err, scores>>
    /\ UNCHANGED <<pc, loop, casefile, hub, hubOut, g1, composeArg, composite,
                   printed, exported>>
    /\ UNCHANGED <<scoreVars, composeVars>>

\* The second gather is done: run() composes, prints one line per score and
\* writes one row per score to grid.csv; or re-raises the gather's exception.
RunScoresGathered ==
    /\ pc = "await_scores"
    /\ g2 \in {"result", "exception"}
    /\ IF g2 = "exception"
       THEN /\ pc' = "raised"
            /\ UNCHANGED <<composeArg, composite, printed, exported>>
       ELSE /\ composeArg' = scores
            /\ composite' = compose(scores)
            /\ printed' = [i \in 1 .. Len(scores) |-> scores[i].criterion]
            /\ exported' = [i \in 1 .. Len(scores) |->
                              <<casefile.company, scores[i].criterion,
                                scores[i].score, scores[i].confidence>>]
            /\ pc' = "done"
    /\ UNCHANGED <<loop, casefile, hub, hubOut, g1, err, task, taskOut, completion, g2,
                   scores>>
    /\ UNCHANGED <<scoreVars, composeVars>>

\* run() has returned or raised: asyncio.run cancels the tasks still pending and
\* closes the loop.
AsyncioRunExit ==
    /\ pc \in {"done", "raised"}
    /\ loop = "running"
    /\ loop' = "closed"
    /\ hub' = [h \in Hubs |-> IF hub[h] \in {"running", "hung"} THEN "cancelled"
                              ELSE hub[h]]
    /\ UNCHANGED <<pc, casefile, hubOut, g1, err, task, taskOut, completion, g2, scores,
                   composeArg, composite, printed, exported>>
    /\ UNCHANGED <<scoreVars, composeVars>>

Next ==
    \/ FetchAndNormalize
    \/ \E h \in Hubs : HubReturn(h)
    \/ \E h \in Hubs : HubRaise(h)
    \/ \E h \in Hubs : HubHang(h)
    \/ RunHubsGathered
    \/ RunHubsFailed
    \/ \E i \in Slots : ScorerThread(i)
    \/ RunScoresGathered
    \/ AsyncioRunExit

Spec == Init /\ [][Next]_vars

\* The event loop runs whatever is ready.
FairSpec == Spec /\ WF_vars(Next)

----------------------------------------------------------------------------
(* Direct calls of one scorer: the scorer is applied to two FeatureSets,    *)
(* each holding any subset of the scorer's two keys.                        *)

\* Every dict over a subset of {k1, k2} with k1's values in V1 and k2's in V2.
Dicts(k1, V1, k2, V2) ==
    {EmptyDict} \cup {k1 :> a : a \in V1} \cup {k2 :> b : b \in V2}
        \cup {(k1 :> a) @@ (k2 :> b) : a \in V1, b \in V2}

NetLeverageValues ==
    {F(0), F(15), F(16), F(30), F(31), F(32), I(3), I(4), B(1), S("3.2"), S("n/a")}
FcfValues == {I(0), F(199), I(20), I(22), I(30), S("n/a")}

RussellValues ==
    {I(0), I(1), I(2), B(0), B(1), F(5), F(10), S("0"), S("3.2"), S("n/a")}
AdvValues ==
    {I(12000000), F(149999999), I(15000000), I(20000000), S("n/a")}

OwnershipValues ==
    {F(0), F(9), I(1), F(21), F(29), I(3), F(31), S("3.2"), S("n/a")}
PerfEquityValues == {I(0), I(1), I(2), B(0), B(1), F(5), S("1"), S("n/a")}

CapitalStructureSets ==
    {FeatureSet("capital_structure", d) :
        d \in Dicts("net_leverage_turns", NetLeverageValues,
                    "fcf_to_net_debt_pct", FcfValues)}
MicrostructureSets ==
    {FeatureSet("microstructure", d) :
        d \in Dicts("russell_eligible", RussellValues,
                    "avg_daily_dollar_volume", AdvValues)}
OwnershipSets ==
    {FeatureSet("ownership", d) :
        d \in Dicts("mgmt_ownership_pct", OwnershipValues,
                    "perf_equity_present", PerfEquityValues)}

ScoreInit ==
    /\ RunIdle
    /\ ComposeIdle
    /\ r1 = NoResult
    /\ r2 = NoResult
    /\ \/ fn = "score_debt_loading"
          /\ fs1 \in CapitalStructureSets /\ fs2 \in CapitalStructureSets
       \/ fn = "score_index_exclusion"
          /\ fs1 \in MicrostructureSets /\ fs2 \in MicrostructureSets
       \/ fn = "score_equity_incentives"
          /\ fs1 \in OwnershipSets /\ fs2 \in OwnershipSets

\* The next call: on fs1, then on fs2.
Call(result1, result2) ==
    /\ r2 = NoResult
    /\ IF r1 = NoResult
       THEN r1' = result1 /\ r2' = r2
       ELSE r1' = r1 /\ r2' = result2
    /\ UNCHANGED <<fn, fs1, fs2>>
    /\ UNCHANGED <<runVars, composeVars>>

ScoreDebtLoading ==
    /\ fn = "score_debt_loading"
    /\ Call(score_debt_loading(fs1), score_debt_loading(fs2))

ScoreIndexExclusion ==
    /\ fn = "score_index_exclusion"
    /\ Call(score_index_exclusion(fs1), score_index_exclusion(fs2))

ScoreEquityIncentives ==
    /\ fn = "score_equity_incentives"
    /\ Call(score_equity_incentives(fs1), score_equity_incentives(fs2))

ScoreNext == ScoreDebtLoading \/ ScoreIndexExclusion \/ ScoreEquityIncentives

ScoreSpec == ScoreInit /\ [][ScoreNext]_vars

----------------------------------------------------------------------------
(* A direct call of compose on a list of up to MaxLen CriterionScores, with *)
(* the criteria of the weight table and one the table does not list.        *)

Criteria == {"Debt Loading", "Index Exclusion", "Equity Incentives", "Synthetic"}
ScoreValues == {1, 5}
ConfidenceValues == {0, 14, 20}

CriterionScores ==
    {CriterionScore(c, sc, conf) :
        c \in Criteria, sc \in ScoreValues, conf \in ConfidenceValues}

ComposeInit ==
    /\ RunIdle
    /\ ScoreIdle
    /\ inScores \in UNION {[1 .. n -> CriterionScores] : n \in 0 .. MaxLen}
    /\ out = NoComposite

ComposeCall ==
    /\ out = NoComposite
    /\ out' = compose(inScores)
    /\ UNCHANGED inScores
    /\ UNCHANGED <<runVars, scoreVars>>

ComposeNext == ComposeCall

ComposeSpec == ComposeInit /\ [][ComposeNext]_vars

----------------------------------------------------------------------------
(* Properties of run().                                                     *)

Range(seq) == {seq[i] : i \in 1 .. Len(seq)}

CriterionOf(i) ==
    CASE i = 1 -> "Debt Loading"
      [] i = 2 -> "Index Exclusion"
      [] i = 3 -> "Equity Incentives"

DeclarationOrder == [i \in Slots |-> CriterionOf(i)]

\* C1: when exactly one hub fails and its siblings return, run() ends with an
\* error naming the failed hub, no sibling is cancelled, and every scorer whose
\* hub returned has run and its score is reported.
C1_PartialScoresOnHubFailure ==
    \A h \in Hubs :
        (/\ pc \in {"done", "raised"}
         /\ hub[h] = "failed"
         /\ \A k \in Hubs \ {h} : hub[k] = "ok")
        => /\ err = h
           /\ \A i \in Slots :
                Requires(i) # h
                => /\ task[i] = "done"
                   /\ taskOut[i].exc = ""
                   /\ CriterionOf(i) \in Range(printed)

\* C2: whatever the order in which the three scorer threads finish, the list
\* passed to compose, the printed lines and the exported rows are in the
\* declaration order Debt Loading, Index Exclusion, Equity Incentives.
C2_DeclarationOrder ==
    pc = "done"
    => /\ [i \in 1 .. Len(composeArg) |-> composeArg[i].criterion] = DeclarationOrder
       /\ printed = DeclarationOrder
       /\ [i \in 1 .. Len(exported) |-> exported[i][2]] = DeclarationOrder

\* run() finished after the threads completed in the reverse of the declaration order.
C2_Witness ==
    /\ pc = "done"
    /\ completion = <<3, 2, 1>>
    /\ Len(exported) = 3

\* C3: every run eventually reaches a terminal state, a composite result or a
\* reported error, even when a hub never completes.
C3_RunTerminates == <>(pc \in {"done", "raised"})

\* C4 (as amended): on the FeatureSet the demo capital_structure_hub supplies,
\* net_leverage_turns 3.2 and fcf_to_net_debt_pct 22, score_debt_loading returns 4.
C4_DemoDebtLoadingIsFour ==
    task[1] = "done"
    => /\ hubOut["capital_structure_hub"].features["net_leverage_turns"] = F(32)
       /\ hubOut["capital_structure_hub"].features["fcf_to_net_debt_pct"] = I(22)
       /\ taskOut[1].exc = ""
       /\ taskOut[1].score = 4

\* C4 (as claimed): on that FeatureSet score_debt_loading returns 3.
C4_DemoDebtLoadingIsThree ==
    task[1] = "done"
    => /\ hubOut["capital_structure_hub"].features["net_leverage_turns"] = F(32)
       /\ hubOut["capital_structure_hub"].features["fcf_to_net_debt_pct"] = I(22)
       /\ taskOut[1].exc = ""
       /\ taskOut[1].score = 3

\* The Debt Loading scorer has run on the hub's FeatureSet inside run().
C4_Witness ==
    /\ task[1] = "done"
    /\ taskOut[1].criterion = "Debt Loading"
    /\ hubOut["capital_structure_hub"] = capital_structure_hub

----------------------------------------------------------------------------
(* Properties of compose.                                                   *)

\* The base weight the claim states, in tenths.
ClaimedBase(c) ==
    CASE c = "Debt Loading" -> 13
      [] c = "Index Exclusion" -> 12
      [] c = "Equity Incentives" -> 15
      [] OTHER -> 10

\* w_i = base_i * (0.5 + 0.5 * confidence_i), in 1/400.
ClaimedW(sc) == ClaimedBase(sc.criterion) * (20 + sc.confidence)

RECURSIVE SumW(_, _)
SumW(scs, idx) ==
    IF idx = {} THEN 0
    ELSE LET i == CHOOSE j \in idx : TRUE
         IN  ClaimedW(scs[i]) + SumW(scs, idx \ {i})

RECURSIVE SumWScore(_, _)
SumWScore(scs, idx) ==
    IF idx = {} THEN 0
    ELSE LET i == CHOOSE j \in idx : TRUE
         IN  ClaimedW(scs[i]) * scs[i].score + SumWScore(scs, idx \ {i})

\* C5: for a non-empty list compose returns (sum of w_i * score_i) / (sum of w_i)
\* with w_i = base_i * (0.5 + 0.5 * confidence_i), base_i from the weight table or
\* 1.0 for a name the table does not list, and returns the list unchanged.
C5_WeightedMean ==
    (out # NoComposite /\ Len(inScores) > 0)
    => /\ out.exc = ""
       /\ out.den > 0
       /\ out.num * SumW(inScores, DOMAIN inScores)
            = SumWScore(inScores, DOMAIN inScores) * out.den
       /\ out.list = inScores

\* compose has returned for a list that mixes a listed and an unlisted criterion
\* with different scores and confidences.
C5_Witness ==
    /\ out.exc = ""
    /\ Len(inScores) >= 2
    /\ \E i, j \in DOMAIN inScores :
          /\ inScores[i].criterion = "Synthetic"
          /\ inScores[j].criterion = "Equity Incentives"
          /\ inScores[i].score # inScores[j].score
          /\ inScores[i].confidence # inScores[j].confidence

\* C6: compose of the empty list returns composite 0 and raises nothing.
C6_EmptyIsZero ==
    (out # NoComposite /\ inScores = <<>>)
    => /\ out.exc = ""
       /\ out.num = 0
       /\ out.den # 0

\* compose has been called on the empty list.
C6_Witness ==
    /\ inScores = <<>>
    /\ out # NoComposite

----------------------------------------------------------------------------
(* Properties of the scorers.                                               *)

\* The two calls made: argument and result.
Calls == {<<fs1, r1>>, <<fs2, r2>>}

\* The call returned a CriterionScore.
Returned(r) == r.exc = ""

\* The numeric value of a feature, in tenths, or of its default when absent.
Num(fs, key, default) == PyFloat(Get(fs.features, key, default)).v

\* A flag feature is absent or holds a whole number (an int, a bool, 1.0),
\* so that "is 0" and "is set" need no conversion.
WholeFlag(fs, key) ==
    key \in DOMAIN fs.features
    => fs.features[key].t # "str" /\ fs.features[key].v % 10 = 0

\* The value of such a flag, in whole units.
Flag(fs, key, default) == Get(fs.features, key, default).v \div 10

\* The defaults the claim lists.
ClaimedDefault(key) ==
    CASE key = "net_leverage_turns" -> I(0)
      [] key = "fcf_to_net_debt_pct" -> I(0)
      [] key = "russell_eligible" -> I(1)
      [] key = "avg_daily_dollar_volume" -> I(0)
      [] key = "mgmt_ownership_pct" -> I(0)
      [] key = "perf_equity_present" -> I(0)

ExpectedKeys ==
    CASE fn = "score_debt_loading" -> {"net_leverage_turns", "fcf_to_net_debt_pct"}
      [] fn = "score_index_exclusion" -> {"russell_eligible", "avg_daily_dollar_volume"}
      [] fn = "score_equity_incentives" -> {"mgmt_ownership_pct", "perf_equity_present"}
      [] OTHER -> {}

\* The FeatureSet with every absent expected feature set to its claimed default.
WithDefaults(fs) ==
    FeatureSet(fs.domain,
               [k \in ExpectedKeys |-> Get(fs.features, k, ClaimedDefault(k))])

Apply(fs) ==
    CASE fn = "score_debt_loading" -> score_debt_loading(fs)
      [] fn = "score_index_exclusion" -> score_index_exclusion(fs)
      [] fn = "score_equity_incentives" -> score_equity_incentives(fs)

\* C7: each scorer returns a CriterionScore and never raises, for a FeatureSet
\* holding any subset of the expected keys with values of any permitted type, and
\* scores an absent feature as its default.
C7_ScorersNeverRaise ==
    \A c \in Calls :
        c[2] # NoResult
        => /\ Returned(c[2])
           /\ c[2] = Apply(WithDefaults(c[1]))

\* C8: for a fixed fcf_to_net_debt_pct and leverage values nl1 <= nl2 the score of
\* score_debt_loading does not decrease, and a returned score is within 1 .. 5.
C8_DebtLoadingMonotone ==
    fn = "score_debt_loading"
    => /\ \A c \in Calls : Returned(c[2]) => c[2].score \in 1 .. 5
       /\ \A c, d \in Calls :
            (/\ Returned(c[2])
             /\ Returned(d[2])
             /\ Num(c[1], "fcf_to_net_debt_pct", I(0))
                  = Num(d[1], "fcf_to_net_debt_pct", I(0))
             /\ Num(c[1], "net_leverage_turns", I(0))
                  <= Num(d[1], "net_leverage_turns", I(0)))
            => c[2].score <= d[2].score

\* Two calls with the same FCF ratio, 22, and leverage 3.0 then 3.2: the score rises.
C8_Witness ==
    /\ fn = "score_debt_loading"
    /\ Returned(r1)
    /\ Returned(r2)
    /\ Num(fs1, "fcf_to_net_debt_pct", I(0)) = 220
    /\ Num(fs2, "fcf_to_net_debt_pct", I(0)) = 220
    /\ Num(fs1, "net_leverage_turns", I(0)) = 30
    /\ Num(fs2, "net_leverage_turns", I(0)) = 32
    /\ r1.score < r2.score

\* C9: score_index_exclusion returns 5 exactly when russell_eligible is 0 and
\* avg_daily_dollar_volume is below 15,000,000, 4 when russell_eligible is 0 and
\* the volume is at or above it, and 2 when eligible: always one of 2, 4, 5.
C9_IndexExclusionTable ==
    \A c \in Calls :
        (/\ fn = "score_index_exclusion"
         /\ Returned(c[2])
         /\ WholeFlag(c[1], "russell_eligible"))
        => LET russ == Flag(c[1], "russell_eligible", I(1))
               adv == Num(c[1], "avg_daily_dollar_volume", I(0))
           IN  /\ c[2].score = 5 <=> (russ = 0 /\ adv < 150000000)
               /\ (russ = 0 /\ adv >= 150000000) => c[2].score = 4
               /\ russ # 0 => c[2].score = 2
               /\ c[2].score \in {2, 4, 5}

\* An ineligible company with a volume of exactly 15,000,000 was scored.
C9_Witness ==
    /\ fn = "score_index_exclusion"
    /\ Returned(r1)
    /\ "russell_eligible" \in DOMAIN fs1.features
    /\ fs1.features["russell_eligible"] = I(0)
    /\ Num(fs1, "avg_daily_dollar_volume", I(0)) = 150000000
    /\ r1.score = 4

\* C10: score_equity_incentives returns 5 for mgmt_ownership_pct >= 3 with
\* performance equity, 4 for 1 <= mgmt_ownership_pct < 3 with performance equity,
\* 3 for mgmt_ownership_pct >= 1 without it, and 2 otherwise.
C10_EquityIncentivesTable ==
    \A c \in Calls :
        (/\ fn = "score_equity_incentives"
         /\ Returned(c[2])
         /\ WholeFlag(c[1], "perf_equity_present"))
        => LET pct == Num(c[1], "mgmt_ownership_pct", I(0))
               perf == Flag(c[1], "perf_equity_present", I(0)) # 0
           IN  c[2].score =
                 IF pct >= 30 /\ perf THEN 5
                 ELSE IF pct >= 10 /\ pct < 30 /\ perf THEN 4
                 ELSE IF pct >= 10 /\ ~perf THEN 3
                 ELSE 2

\* Management owning 2.1% with performance equity was scored 4.
C10_Witness ==
    /\ fn = "score_equity_incentives"
    /\ Returned(r1)
    /\ Num(fs1, "mgmt_ownership_pct", I(0)) = 21
    /\ "perf_equity_present" \in DOMAIN fs1.features
    /\ fs1.features["perf_equity_present"] = I(1)
    /\ r1.score = 4

====
